---------------------------- MODULE Spec2Model ----------------------------
(***************************************************************************)
(* Resilience and streaming-relay layer of copilot-api: the error          *)
(* classifier, the circuit breaker and its auto-reset timer                *)
(* (src/lib/error-handler.ts), the retrying executor                       *)
(* (services/copilot/chat-completions/service.ts), the stream opener       *)
(* (service-streaming.ts), the streaming handler (handler-streaming.ts)    *)
(* and the route (routes/chat-completions/route.ts).                       *)
(*                                                                         *)
(* JavaScript runs one callback at a time: every action below is the code  *)
(* that runs between two suspension points (await, timer, I/O event).      *)
(* Strings are sequences of one-character strings, so that toLowerCase     *)
(* and String.includes are computed, not assumed.                          *)
(***************************************************************************)
EXTENDS Integers, Sequences, FiniteSets, TLC

VARIABLES
    \* module state of error-handler.ts
    consecutiveFailures, circuitOpen, circuitResetTimer, lastCircuitOpenTime,
    recentFailures,
    \* the runtime: Date.now(), the pending setTimeout callbacks, the next handle
    now, timers, nextTimerId,
    \* history: every failure ever handed to recordFailure, newest first, and the
    \* counting ones among them since the last recordSuccess or auto-reset
    failureLog, streak,
    \* the policy in force (retryOptions of the service functions)
    retryOptions,
    \* the failures the upstream may answer with in this run
    faults,
    \* one record per request slot (see IdleCall)
    calls,
    \* history: requests accepted so far, upstream attempts made so far, requests
    \* that ended with the failure of their last upstream attempt so far
    started, upstreamTotal, failed,
    \* the last call of calculateBackoff: its arguments, the value Math.random()
    \* gave it and the delay it returned
    backoff,
    \* the last object getFailureStats() returned, as its caller holds it
    stats,
    \* the last call of shouldRetry: its arguments and the value it returned
    retry

breakerVars == <<consecutiveFailures, circuitOpen, circuitResetTimer,
                 lastCircuitOpenTime, recentFailures, timers, nextTimerId, failureLog,
                 streak>>
probeVars == <<backoff, stats, retry>>
vars == <<consecutiveFailures, circuitOpen, circuitResetTimer, lastCircuitOpenTime,
          recentFailures, now, timers, nextTimerId, failureLog, streak,
          retryOptions,
          faults, calls, started, upstreamTotal, failed, backoff, stats, retry>>

---------------------------------------------------------------------------
(* Strings *)

UpperCase == <<"A","B","C","D","E","F","G","H","I","J","K","L","M",
               "N","O","P","Q","R","S","T","U","V","W","X","Y","Z">>
LowerCase == <<"a","b","c","d","e","f","g","h","i","j","k","l","m",
               "n","o","p","q","r","s","t","u","v","w","x","y","z">>

\* String.prototype.toLowerCase
toLowerCase(s) ==
    [i \in 1..Len(s) |->
        IF \E k \in 1..Len(UpperCase) : UpperCase[k] = s[i]
        THEN LowerCase[CHOOSE k \in 1..Len(UpperCase) : UpperCase[k] = s[i]]
        ELSE s[i]]

\* String.prototype.includes (case-sensitive substring test)
includes(s, term) ==
    \E i \in 0..(Len(s) - Len(term)) : SubSeq(s, i + 1, i + Len(term)) = term

\* Array.prototype.includes on a sequence of numbers
arrayIncludes(arr, x) == \E i \in 1..Len(arr) : arr[i] = x

EmptyString == <<>>

MsgUnknownError ==
    <<"U","n","k","n","o","w","n"," ","e","r","r","o","r">>
MsgUnknownStreamingError ==
    <<"U","n","k","n","o","w","n"," ","s","t","r","e","a","m","i","n","g"," ","e","r","r","o","r">>
MsgBreakerOpen ==
    <<"S","e","r","v","i","c","e"," ","t","e","m","p","o","r","a","r","i","l","y"," ","u","n","a",
      "v","a","i","l","a","b","l","e","."," ","T","o","o"," ","m","a","n","y"," ","r","e","c","e",
      "n","t"," ","f","a","i","l","u","r","e","s"," ","t","o"," ","t","h","e"," ","C","o","p","i",
      "l","o","t"," ","A","P","I",".">>
MsgClientAborted ==
    <<"C","l","i","e","n","t"," ","a","b","o","r","t","e","d"," ","t","h","e"," ","c","o","n","n",
      "e","c","t","i","o","n">>
MsgFailedAfterRetries ==
    <<"F","a","i","l","e","d"," ","a","f","t","e","r"," ","a","l","l"," ","r","e","t","r","y",
      " ","a","t","t","e","m","p","t","s">>
MsgFailedStreamAfterRetries ==
    <<"F","a","i","l","e","d"," ","t","o"," ","g","e","t"," ","s","t","r","e","a","m","i","n",
      "g"," ","r","e","s","p","o","n","s","e"," ","a","f","t","e","r"," ","a","l","l"," ","r",
      "e","t","r","i","e","s">>
MsgUnknownStreamError ==
    <<"U","n","k","n","o","w","n"," ","s","t","r","e","a","m"," ","e","r","r","o","r">>
\* messages an upstream or a sink failure may carry (inputs)
MsgServerError ==
    <<"I","n","t","e","r","n","a","l"," ","S","e","r","v","e","r"," ","E","r","r","o","r">>
\* the phrase of shouldRetry's carve-out as an upstream may spell it
MsgUnknownStreamingErrorLower ==
    <<"u","n","k","n","o","w","n"," ","s","t","r","e","a","m","i","n","g"," ","e","r","r","o","r">>
MsgBadRequest ==
    <<"B","a","d"," ","R","e","q","u","e","s","t">>
MsgOperationAborted ==
    <<"T","h","e"," ","o","p","e","r","a","t","i","o","n"," ","w","a","s"," ","a","b","o","r","t",
      "e","d">>
MsgGatewayTimeout ==
    <<"G","a","t","e","w","a","y"," ","T","i","m","e","o","u","t">>
MsgWriteFailed ==
    <<"w","r","i","t","e"," ","E","P","I","P","E">>

---------------------------------------------------------------------------
(* error-handler.ts: constants and policy *)

FAILURE_THRESHOLD == 5
RESET_TIMEOUT == 60000
MAX_RECENT_FAILURES == 20

DEFAULT_RETRY_OPTIONS ==
    [ maxRetries |-> 3,
      initialDelayMs |-> 1000,
      backoffFactor |-> 2,
      maxDelayMs |-> 10000,
      retryableStatusCodes |-> <<429, 500, 502, 503, 504>>,
      nonCountingErrors |-> <<
        <<"a","b","o","r","t","e","d">>,
        <<"a","b","o","r","t">>,
        <<"o","p","e","r","a","t","i","o","n"," ","w","a","s"," ","a","b","o","r","t","e","d">>,
        <<"u","s","e","r"," ","a","b","o","r","t","e","d">>,
        <<"c","a","n","c","e","l","e","d">>,
        <<"c","a","n","c","e","l","l","e","d">>,
        <<"t","i","m","e","o","u","t">>,
        <<"s","o","c","k","e","t"," ","h","a","n","g"," ","u","p">>,
        <<"n","e","t","w","o","r","k"," ","e","r","r","o","r">> >> ]

\* isNonCountingError(errorMessage, options)
isNonCountingError(errorMessage, options) ==
    IF errorMessage = EmptyString THEN FALSE
    ELSE LET normalizedError == toLowerCase(errorMessage)
         IN  \E k \in 1..Len(options.nonCountingErrors) :
                 includes(normalizedError, toLowerCase(options.nonCountingErrors[k]))

\* shouldRetry(statusCode, errorMessage, options)
shouldRetry(statusCode, errorMessage, options) ==
    IF errorMessage # EmptyString /\ isNonCountingError(errorMessage, options)
    THEN FALSE
    ELSE IF statusCode = 500 /\ includes(errorMessage, MsgUnknownStreamingError)
    THEN TRUE
    ELSE arrayIncludes(options.retryableStatusCodes, statusCode)

\* the policies, messages and status codes that occur in the model
Policies == { DEFAULT_RETRY_OPTIONS, [DEFAULT_RETRY_OPTIONS EXCEPT !.maxRetries = 1] }
Messages ==
    { EmptyString, MsgUnknownError, MsgUnknownStreamingError, MsgUnknownStreamError,
      MsgBreakerOpen, MsgClientAborted, MsgFailedAfterRetries,
      MsgFailedStreamAfterRetries, MsgServerError,
      MsgBadRequest, MsgOperationAborted, MsgGatewayTimeout, MsgWriteFailed,
      MsgUnknownStreamingErrorLower }
StatusCodes == {0, 400, 429, 500, 502, 503, 504}

\* a policy handed in by a caller (the retryOptions parameter of the services):
\* the default one with 500 taken off the retryable status codes
RetryOptionsWithout500 ==
    [DEFAULT_RETRY_OPTIONS EXCEPT !.retryableStatusCodes = <<429, 502, 503, 504>>]
AllPolicies == Policies \cup { RetryOptionsWithout500 }

\* isNonCountingError and shouldRetry over those, evaluated once
NonCountingTable ==
    [o \in AllPolicies, m \in Messages |-> isNonCountingError(m, o)]
ShouldRetryTable ==
    [o \in AllPolicies, s \in StatusCodes, m \in Messages |-> shouldRetry(s, m, o)]
nonCounting(errorMessage, options) == NonCountingTable[options, errorMessage]
retryable(statusCode, errorMessage, options) ==
    ShouldRetryTable[options, statusCode, errorMessage]

---------------------------------------------------------------------------
(* error-handler.ts: calculateBackoff *)

\* the largest attempt number handed to calculateBackoff
MaxAttempt == 6
\* Math.random() yields k / RandomSteps for k in 0 .. RandomSteps - 1
RandomSteps == 10

\* Math.pow(base, n) for a natural n
RECURSIVE pow(_, _)
pow(base, n) == IF n = 0 THEN 1 ELSE base * pow(base, n - 1)

\* Math.min
min(a, b) == IF a <= b THEN a ELSE b

\* delays are kept as whole numbers of 1 / DelayUnit ms, which is exact for
\* every value Math.random() yields here
DelayUnit == 5 * RandomSteps

\* baseDelay of calculateBackoff, in ms
baseDelay(attempt, options) ==
    min(options.maxDelayMs, options.initialDelayMs * pow(options.backoffFactor, attempt))

\* a backoff whose jitter is up to twice the base delay instead of a fifth of it
calculateBackoffWideJitter(attempt, options, k) ==
    LET base == baseDelay(attempt, options)
        jitter == 10 * base * (2 * k - RandomSteps)
    IN  base * DelayUnit + jitter

\* calculateBackoff(attempt, options) when Math.random() yields k / RandomSteps:
\* baseDelay + baseDelay * 0.2 * (random * 2 - 1), in 1 / DelayUnit ms
calculateBackoff(attempt, options, k) ==
    LET base == baseDelay(attempt, options)
        jitter == base * (2 * k - RandomSteps)
    IN  base * DelayUnit + jitter

---------------------------------------------------------------------------
(* error-handler.ts: the circuit breaker, as functions of the module state *)

\* calculateBackoff has not been called / getFailureStats has not been called
NoBackoff == [attempt |-> 0, random |-> 0, delay |-> 0]
NoStats == <<>>
\* shouldRetry has not been called
NoRetry == <<>>

\* the module state (and the timer queue it schedules on) as one record
Breaker ==
    [ consecutiveFailures |-> consecutiveFailures,
      circuitOpen |-> circuitOpen,
      circuitResetTimer |-> circuitResetTimer,
      lastCircuitOpenTime |-> lastCircuitOpenTime,
      recentFailures |-> recentFailures,
      timers |-> timers,
      nextTimerId |-> nextTimerId,
      failureLog |-> failureLog,
      streak |-> streak ]

\* an array as the program holds it: the array object (recentFailures is the
\* module's own array) and its items; `[...list]` makes a new array object
spread(list) == [array |-> "copy", items |-> list]

\* the object a caller got from getFailureStats, after the module's array has
\* become list: it shows the change if it holds that very array
held(s, list) ==
    IF s # NoStats /\ s.recentFailures.array = "recentFailures"
    THEN [s EXCEPT !.recentFailures.items = list]
    ELSE s

\* the assignments that store a record of the module state back; recentFailures
\* is changed in place
SetBreaker(b) ==
    /\ consecutiveFailures' = b.consecutiveFailures
    /\ circuitOpen' = b.circuitOpen
    /\ circuitResetTimer' = b.circuitResetTimer
    /\ lastCircuitOpenTime' = b.lastCircuitOpenTime
    /\ recentFailures' = b.recentFailures
    /\ timers' = b.timers
    /\ nextTimerId' = b.nextTimerId
    /\ failureLog' = b.failureLog
    /\ streak' = b.streak
    /\ stats' = held(stats, b.recentFailures)

\* isCircuitOpen()
isCircuitOpen(b) == b.circuitOpen

\* clearTimeout(handle): the pending callback with that handle is dropped
clearTimeout(pending, handle) == {t \in pending : t.id # handle}

\* recordSuccess() with the counter reset moved inside the if (circuitOpen)
recordSuccessWhenOpen(b) ==
    IF b.circuitOpen
    THEN [b EXCEPT !.consecutiveFailures = 0, !.streak = 0, !.circuitOpen = FALSE,
                   !.timers = clearTimeout(b.timers, b.circuitResetTimer),
                   !.circuitResetTimer = 0]
    ELSE b

\* recordSuccess() without the clearTimeout call: the handle is dropped and the
\* callback stays scheduled
recordSuccessKeepsTimer(b) ==
    LET b1 == [b EXCEPT !.consecutiveFailures = 0, !.streak = 0]
    IN  IF b1.circuitOpen
        THEN [b1 EXCEPT !.circuitOpen = FALSE, !.circuitResetTimer = 0]
        ELSE b1

\* recordSuccess(); circuitResetTimer = 0 is the null handle
recordSuccess(b) ==
    LET b1 == [b EXCEPT !.consecutiveFailures = 0, !.streak = 0]
    IN  IF b1.circuitOpen
        THEN IF b1.circuitResetTimer # 0
             THEN [b1 EXCEPT !.circuitOpen = FALSE,
                             !.timers = clearTimeout(b1.timers, b1.circuitResetTimer),
                             !.circuitResetTimer = 0]
             ELSE [b1 EXCEPT !.circuitOpen = FALSE]
        ELSE b1

\* unshift(entry) followed by shift() instead of pop(): the newest entry is the
\* one dropped on overflow
pushRecentDropsNewest(list, entry) ==
    LET l1 == <<entry>> \o list
    IN  IF Len(l1) > MAX_RECENT_FAILURES THEN SubSeq(l1, 2, Len(l1)) ELSE l1

\* recentFailures.unshift(entry); if (length > MAX_RECENT_FAILURES) pop()
pushRecent(list, entry) ==
    LET l1 == <<entry>> \o list
    IN  IF Len(l1) > MAX_RECENT_FAILURES THEN SubSeq(l1, 1, Len(l1) - 1) ELSE l1

\* a recordFailure that counts every failure
skipsNothing(errorMessage, options) == FALSE

\* the test before the early return of recordFailure:
\* errorMessage && isNonCountingError(errorMessage, options)
skipsCount(errorMessage, options) ==
    errorMessage # EmptyString /\ nonCounting(errorMessage, options)

\* an opening test that does not look at circuitOpen
thresholdReachedAgain(b) ==
    b.consecutiveFailures >= FAILURE_THRESHOLD

\* an opening test with > in place of >=
thresholdPassed(b) ==
    b.consecutiveFailures > FAILURE_THRESHOLD /\ ~b.circuitOpen

\* the opening test of recordFailure, after consecutiveFailures++
thresholdReached(b) ==
    b.consecutiveFailures >= FAILURE_THRESHOLD /\ ~b.circuitOpen

\* a recordFailure that stamps lastCircuitOpenTime at every counting failure
\* that finds the threshold reached, the breaker being open or not
recordFailureRestamps(b, statusCode, errorMessage, options, t) ==
    LET entry == [ timestamp |-> t,
                   statusCode |-> statusCode,
                   message |-> IF errorMessage = EmptyString
                               THEN MsgUnknownError ELSE errorMessage ]
        b1 == [b EXCEPT !.recentFailures = pushRecent(b.recentFailures, entry),
                        !.failureLog = <<entry>> \o b.failureLog]
    IN  IF skipsCount(errorMessage, options)
        THEN b1
        ELSE LET b2 == [b1 EXCEPT !.consecutiveFailures = b1.consecutiveFailures + 1,
                                  !.streak = b1.streak + 1]
             IN  IF thresholdReached(b2)
                 THEN [b2 EXCEPT !.circuitOpen = TRUE,
                                 !.lastCircuitOpenTime = t,
                                 !.circuitResetTimer = b2.nextTimerId,
                                 !.timers = b2.timers \cup
                                     {[id |-> b2.nextTimerId, due |-> t + RESET_TIMEOUT]},
                                 !.nextTimerId = b2.nextTimerId + 1]
                 ELSE IF b2.consecutiveFailures >= FAILURE_THRESHOLD
                      THEN [b2 EXCEPT !.lastCircuitOpenTime = t]
                      ELSE b2

\* recordFailure(statusCode, errorMessage, options) at time t = Date.now()
recordFailure(b, statusCode, errorMessage, options, t) ==
    LET entry == [ timestamp |-> t,
                   statusCode |-> statusCode,
                   message |-> IF errorMessage = EmptyString
                               THEN MsgUnknownError ELSE errorMessage ]
        b1 == [b EXCEPT !.recentFailures = pushRecent(b.recentFailures, entry),
                        !.failureLog = <<entry>> \o b.failureLog]
    IN  IF skipsCount(errorMessage, options)
        THEN b1
        ELSE LET b2 == [b1 EXCEPT !.consecutiveFailures = b1.consecutiveFailures + 1,
                                  !.streak = b1.streak + 1]
             IN  IF thresholdReached(b2)
                 THEN [b2 EXCEPT !.circuitOpen = TRUE,
                                 !.lastCircuitOpenTime = t,
                                 !.circuitResetTimer = b2.nextTimerId,
                                 !.timers = b2.timers \cup
                                     {[id |-> b2.nextTimerId, due |-> t + RESET_TIMEOUT]},
                                 !.nextTimerId = b2.nextTimerId + 1]
                 ELSE b2

\* a timer callback that closes the breaker and leaves the counter as it is
autoResetFlagOnly(b) ==
    [b EXCEPT !.circuitOpen = FALSE]

\* a timer callback that resets the counter and leaves the breaker open
autoResetCounterOnly(b) ==
    [b EXCEPT !.consecutiveFailures = 0, !.streak = 0]

\* a timer callback that also forgets when the breaker was opened
autoResetClearsOpenTime(b) ==
    [b EXCEPT !.circuitOpen = FALSE, !.consecutiveFailures = 0, !.streak = 0,
              !.lastCircuitOpenTime = 0]

\* the callback handed to setTimeout in recordFailure
autoReset(b) ==
    [b EXCEPT !.circuitOpen = FALSE, !.consecutiveFailures = 0, !.streak = 0]

\* a getFailureStats that hands out the module's own array
getFailureStatsShared(b) ==
    [ consecutiveFailures |-> b.consecutiveFailures,
      circuitOpen |-> b.circuitOpen,
      lastCircuitOpenTime |-> IF b.lastCircuitOpenTime > 0
                              THEN <<"ISO", b.lastCircuitOpenTime>> ELSE <<"null">>,
      recentFailures |-> [array |-> "recentFailures", items |-> b.recentFailures] ]

\* getFailureStats(): lastCircuitOpenTime 0 is reported as null ("null")
getFailureStats(b) ==
    [ consecutiveFailures |-> b.consecutiveFailures,
      circuitOpen |-> b.circuitOpen,
      lastCircuitOpenTime |-> IF b.lastCircuitOpenTime > 0
                              THEN <<"ISO", b.lastCircuitOpenTime>> ELSE <<"null">>,
      recentFailures |-> spread(b.recentFailures) ]

---------------------------------------------------------------------------
(* Bounds of the model *)

\* requests accepted in one run (slots are reused)
MaxCalls == 3
\* upstream attempts made in one run, over all requests
MaxUpstream == 6
\* chunks an upstream stream yields before it ends
NumChunks == 2
\* clock ticks of RESET_TIMEOUT / 2 each
MaxTicks == 3
\* failures handed to recordFailure when the breaker is driven directly
MaxRecorded == 6
\* failures already recorded when a run on a used breaker starts
MaxBacklog == 18

\* the request slots: two requests run concurrently
Calls == {1, 2}
TickMs == RESET_TIMEOUT \div 2
StartTime == TickMs

---------------------------------------------------------------------------
(* Requests: one record per slot *)

NoError == [kind |-> "none", status |-> 0, message |-> EmptyString]

\* pc: where the request is suspended; http: the status answered (0: none yet);
\* upstream: attempts made; error: what the service threw; proc: processStream;
\* cb: the streamSSE callback; aborted: c.req.raw.signal.aborted;
\* received: chunks the upstream has yielded; trace (history): the writeSSE
\* calls made, the ones that failed, and when the cancellation won;
\* gen (history): how often the breaker had opened when the request was accepted
IdleCall ==
    [ pc |-> "idle", stream |-> FALSE, attempt |-> 0, upstream |-> 0, http |-> 0,
      error |-> NoError, proc |-> "none", cb |-> "none", aborted |-> FALSE,
      received |-> 0, trace |-> <<>>, gen |-> 0 ]

\* an error thrown by new Error(message)
PlainError(message) == [kind |-> "Error", status |-> 0, message |-> message]
\* ofetch's FetchError
FetchError(status, message) == [kind |-> "FetchError", status |-> status, message |-> message]
\* a Response thrown as the error (it has a status and no message)
ResponseError(status) == [kind |-> "Response", status |-> status, message |-> EmptyString]


\* route.ts: the catch block of completionRoutes.post, as the status answered
routeCatch(error) ==
    CASE error.kind = "FetchError" ->
            IF nonCounting(error.message, DEFAULT_RETRY_OPTIONS) THEN 499
            ELSE IF error.status # 0 THEN error.status ELSE 500
      [] error.kind = "Response" -> error.status
      [] error.kind = "Error" ->
            IF nonCounting(error.message, DEFAULT_RETRY_OPTIONS) THEN 499 ELSE 500
      [] OTHER -> 500

\* handler-streaming.ts: what a failure of the service call is answered with.
\* The streaming branch catches it (499 for a non-counting message, else rethrown
\* to the route); the non-streaming call is outside any try of the handler.
handlerCatch(r, error) ==
    IF r.stream /\ nonCounting(error.message, DEFAULT_RETRY_OPTIONS)
    THEN 499
    ELSE routeCatch(error)

\* the service throws: the request ends with the status the handler and route give
throw(r, error) ==
    [r EXCEPT !.pc = "done", !.error = error, !.http = handlerCatch(r, error)]

\* the loop condition of chatCompletions and chatCompletionsStream
whileGuard(attempt, options) == attempt <= options.maxRetries

\* one pass of the loop head: the upstream call is issued, or the loop is left
loopHead(r, options) ==
    IF whileGuard(r.attempt, options)
    THEN [r EXCEPT !.pc = "upstream", !.upstream = @ + 1]
    ELSE throw(r, PlainError(IF r.stream THEN MsgFailedStreamAfterRetries
                             ELSE MsgFailedAfterRetries))

\* chatCompletions / chatCompletionsStream up to the first await: the breaker
\* check, attempt = 0 and the first upstream call
serviceEnter(r, b, options) ==
    IF isCircuitOpen(b)
    THEN throw(r, PlainError(MsgBreakerOpen))
    ELSE loopHead([r EXCEPT !.attempt = 0], options)

\* a retry test that looks at the attempt number alone
retryAllowedAnyStatus(attempt, statusCode, errorMessage, options) ==
    attempt < options.maxRetries

\* the retry test of chatCompletions (service.ts:80)
retryAllowed(attempt, statusCode, errorMessage, options) ==
    attempt < options.maxRetries /\ retryable(statusCode, errorMessage, options)

\* the retry test of chatCompletionsStream (service-streaming.ts:125)
retryAllowedStream(attempt, statusCode, errorMsg, options) ==
    attempt < options.maxRetries
        /\ (retryable(statusCode, errorMsg, options) \/ statusCode = 500)

\* a catch block that issues the next attempt at once, without the backoff sleep
chatCompletionsCatchNoBackoff(r, b, error, options, t) ==
    LET statusCode == IF error.kind = "FetchError" THEN error.status ELSE 0
        errorMessage == error.message
    IN  IF nonCounting(errorMessage, options)
        THEN <<throw(r, error), b>>
        ELSE LET b1 == recordFailure(b, statusCode, errorMessage, options, t)
             IN  IF retryAllowed(r.attempt, statusCode, errorMessage, options)
                 THEN <<[r EXCEPT !.attempt = @ + 1, !.upstream = @ + 1], b1>>
                 ELSE <<throw(r, error), b1>>

\* a catch block that calls recordFailure before it looks at the message
chatCompletionsCatchRecordsFirst(r, b, error, options, t) ==
    LET statusCode == IF error.kind = "FetchError" THEN error.status ELSE 0
        errorMessage == error.message
        b1 == recordFailure(b, statusCode, errorMessage, options, t)
    IN  IF nonCounting(errorMessage, options)
        THEN <<throw(r, error), b1>>
        ELSE IF retryAllowed(r.attempt, statusCode, errorMessage, options)
             THEN <<[r EXCEPT !.pc = "sleep"], b1>>
             ELSE <<throw(r, error), b1>>

\* a catch block that records a failure only when the call gives up
chatCompletionsCatchRecordsLast(r, b, error, options, t) ==
    LET statusCode == IF error.kind = "FetchError" THEN error.status ELSE 0
        errorMessage == error.message
    IN  IF nonCounting(errorMessage, options)
        THEN <<throw(r, error), b>>
        ELSE IF retryAllowed(r.attempt, statusCode, errorMessage, options)
             THEN <<[r EXCEPT !.pc = "sleep"], b>>
             ELSE <<throw(r, error), recordFailure(b, statusCode, errorMessage, options, t)>>

\* chatCompletions' catch block: <<request, breaker>> after it
chatCompletionsCatch(r, b, error, options, t) ==
    LET statusCode == IF error.kind = "FetchError" THEN error.status ELSE 0
        errorMessage == error.message
    IN  IF nonCounting(errorMessage, options)
        THEN <<throw(r, error), b>>
        ELSE LET b1 == recordFailure(b, statusCode, errorMessage, options, t)
             IN  IF retryAllowed(r.attempt, statusCode, errorMessage, options)
                 THEN <<[r EXCEPT !.pc = "sleep"], b1>>
                 ELSE <<throw(r, error), b1>>

\* chatCompletionsStream's outer catch block: <<request, breaker>> after it
chatCompletionsStreamCatch(r, b, error, options, t) ==
    LET statusCode == error.status
        errorMsg == IF error.message = EmptyString
                    THEN MsgUnknownStreamingError ELSE error.message
    IN  IF nonCounting(errorMsg, options)
        THEN <<throw(r, error), b>>
        ELSE LET b1 == recordFailure(b, statusCode, errorMsg, options, t)
             IN  IF retryAllowedStream(r.attempt, statusCode, errorMsg, options)
                 THEN <<[r EXCEPT !.pc = "sleep"], b1>>
                 ELSE <<throw(r, error), b1>>

SetCall(c, r) == calls' = [calls EXCEPT ![c] = r]

---------------------------------------------------------------------------
(* Inputs: what the upstream and the downstream sink may answer *)

\* failures of the single-shot upstream call (ofetch): a retryable status, a
\* status that is not retryable, a retryable status whose message matches a
\* non-counting pattern ("timeout"), and an abort. Within one run the retryable
\* failures carry one status.
NonStreamErrors(retryableStatus) ==
    { FetchError(retryableStatus, MsgServerError),
      FetchError(400, MsgBadRequest),
      FetchError(504, MsgGatewayTimeout),
      PlainError(MsgOperationAborted) }
\* a run may also see nothing but status 500 from the upstream
Only500 == { FetchError(500, MsgServerError) }
NonStreamFaults == { NonStreamErrors(500), NonStreamErrors(503), Only500 }

\* failures of opening the upstream stream
StreamOpenErrors ==
    { ResponseError(500), ResponseError(400), PlainError(MsgOperationAborted) }

\* failures of an open upstream stream
MidStreamErrors ==
    { FetchError(502, MsgServerError), PlainError(MsgServerError),
      PlainError(MsgOperationAborted) }

\* failures of stream.writeSSE
WriteErrors == { PlainError(MsgWriteFailed), PlainError(MsgOperationAborted) }

---------------------------------------------------------------------------
(* The runtime: clock and timers *)

\* time passes; the clock is read by recordFailure and compared with the due
\* times of pending timers, and is advanced while a timer is pending (past
\* the horizon only up to the time that timer is due)
Tick ==
    /\ \E t \in timers : now < StartTime + MaxTicks * TickMs \/ now < t.due
    /\ now' = now + TickMs
    /\ UNCHANGED <<probeVars, breakerVars, retryOptions, faults, calls, started, upstreamTotal, failed>>

\* a pending setTimeout callback that is due runs: the breaker's auto-reset
TimerFire ==
    \E t \in timers :
        /\ now >= t.due
        /\ SetBreaker(autoReset([Breaker EXCEPT !.timers = timers \ {t}]))
        /\ UNCHANGED <<backoff, retry, now, retryOptions, faults, calls, started, upstreamTotal, failed>>

---------------------------------------------------------------------------
(* route.ts and handler-streaming.ts, up to the service call *)

\* a slot is free when its request is answered and its processStream has ended
SlotFree(r) ==
    \/ r.pc = "idle"
    \/ r.pc = "done" /\ r.proc \in {"none", "returned", "threw"}

\* POST /: the route's breaker check, then await c.req.json()
Accept(c, stream) ==
    /\ SlotFree(calls[c])
    /\ started < MaxCalls
    /\ started' = started + 1
    /\ IF isCircuitOpen(Breaker)
       THEN SetCall(c, [IdleCall EXCEPT !.stream = stream, !.gen = nextTimerId - 1,
                                        !.pc = "done", !.http = 503])
       ELSE SetCall(c, [IdleCall EXCEPT !.stream = stream, !.gen = nextTimerId - 1,
                                        !.pc = "routeJson"])
    /\ UNCHANGED <<probeVars, breakerVars, now, retryOptions, faults, upstreamTotal, failed>>

\* the route has logged the request and calls handlerStreaming, which awaits
\* c.req.json() in turn
RouteJsonDone(c) ==
    /\ calls[c].pc = "routeJson"
    /\ SetCall(c, [calls[c] EXCEPT !.pc = "handlerJson"])
    /\ UNCHANGED <<probeVars, breakerVars, now, retryOptions, faults, started, upstreamTotal, failed>>

\* handlerStreaming calls chatCompletionsStream or chatCompletions
HandlerJsonDone(c) ==
    /\ calls[c].pc = "handlerJson"
    /\ LET r == serviceEnter(calls[c], Breaker, retryOptions)
       IN  /\ upstreamTotal + (r.upstream - calls[c].upstream) <= MaxUpstream
           /\ upstreamTotal' = upstreamTotal + (r.upstream - calls[c].upstream)
           /\ SetCall(c, r)
    /\ UNCHANGED <<probeVars, breakerVars, now, retryOptions, faults, started, failed>>

---------------------------------------------------------------------------
(* service.ts and service-streaming.ts: the attempt loop *)

\* the streamSSE callback starts: the abort listener is registered and
\* processStream waits for the first chunk
relayStart(r) ==
    [r EXCEPT !.pc = "relay", !.http = 200, !.proc = "next", !.cb = "racing"]

\* the slots whose upstream stream opens; a streaming request in another slot
\* only meets upstream failures
Relays == {1}

\* an upstream call whose success is recorded for non-streaming calls only, a
\* stream's success being left to onClose
UpstreamOkStreamUnrecorded(c) ==
    /\ calls[c].pc = "upstream"
    /\ calls[c].stream => c \in Relays
    /\ SetBreaker(IF calls[c].stream THEN Breaker ELSE recordSuccess(Breaker))
    /\ IF calls[c].stream
       THEN SetCall(c, relayStart(calls[c]))
       ELSE SetCall(c, [calls[c] EXCEPT !.pc = "done", !.http = 200])
    /\ UNCHANGED <<backoff, retry, now, retryOptions, faults, started, upstreamTotal, failed>>

\* the upstream call succeeds: recordSuccess(), return response
UpstreamOk(c) ==
    /\ calls[c].pc = "upstream"
    /\ calls[c].stream => c \in Relays
    /\ SetBreaker(recordSuccess(Breaker))
    /\ IF calls[c].stream
       THEN SetCall(c, relayStart(calls[c]))
       ELSE SetCall(c, [calls[c] EXCEPT !.pc = "done", !.http = 200])
    /\ UNCHANGED <<backoff, retry, now, retryOptions, faults, started, upstreamTotal, failed>>

\* the upstream call fails with error: the catch block
UpstreamFail(c, error) ==
    /\ calls[c].pc = "upstream"
    /\ error \in faults
    /\ LET res == IF calls[c].stream
                  THEN chatCompletionsStreamCatch(calls[c], Breaker, error, retryOptions, now)
                  ELSE chatCompletionsCatch(calls[c], Breaker, error, retryOptions, now)
       IN  /\ SetCall(c, res[1])
           /\ SetBreaker(res[2])
           /\ failed' = IF res[1].pc = "done" THEN failed + 1 ELSE failed
    /\ UNCHANGED <<backoff, retry, now, retryOptions, faults, started, upstreamTotal>>

\* the backoff sleep ends and the loop head is run again with attempt as it was
WakeSameAttempt(c) ==
    /\ calls[c].pc = "sleep"
    /\ LET r == loopHead(calls[c], retryOptions)
       IN  /\ upstreamTotal + (r.upstream - calls[c].upstream) <= MaxUpstream
           /\ upstreamTotal' = upstreamTotal + (r.upstream - calls[c].upstream)
           /\ SetCall(c, r)
    /\ UNCHANGED <<probeVars, breakerVars, now, retryOptions, faults, started, failed>>

\* a loop that consults the breaker again before every further attempt
WakeChecksBreaker(c) ==
    /\ calls[c].pc = "sleep"
    /\ LET r == serviceEnter([calls[c] EXCEPT !.attempt = @ + 1], Breaker, retryOptions)
           r1 == IF r.pc = "done" THEN r ELSE [r EXCEPT !.attempt = calls[c].attempt + 1]
       IN  /\ upstreamTotal + (r1.upstream - calls[c].upstream) <= MaxUpstream
           /\ upstreamTotal' = upstreamTotal + (r1.upstream - calls[c].upstream)
           /\ SetCall(c, r1)
    /\ UNCHANGED <<probeVars, breakerVars, now, retryOptions, faults, started, failed>>

\* the backoff sleep ends: attempt++, and the loop head again
Wake(c) ==
    /\ calls[c].pc = "sleep"
    /\ LET r == loopHead([calls[c] EXCEPT !.attempt = @ + 1], retryOptions)
       IN  /\ upstreamTotal + (r.upstream - calls[c].upstream) <= MaxUpstream
           /\ upstreamTotal' = upstreamTotal + (r.upstream - calls[c].upstream)
           /\ SetCall(c, r)
    /\ UNCHANGED <<probeVars, breakerVars, now, retryOptions, faults, started, failed>>

---------------------------------------------------------------------------
(* service-streaming.ts: the callbacks handed to stream() *)


\* onError(err): the breaker after it
onError(b, err, options, t) ==
    LET errorMsg == IF err.message = EmptyString THEN MsgUnknownStreamError ELSE err.message
    IN  IF nonCounting(errorMsg, options)
        THEN b
        ELSE IF err.status # 0 /\ retryable(err.status, errorMsg, options)
        THEN recordFailure(b, err.status, errorMsg, options, t)
        ELSE b

\* onClose(): the breaker after it
onClose(b) == recordSuccess(b)

---------------------------------------------------------------------------
(* handler-streaming.ts: the streamSSE callback *)

\* processStream returns: if the race is still on, the callback ends with it
procReturn(r) ==
    IF r.cb = "racing"
    THEN [r EXCEPT !.proc = "returned", !.cb = "ended", !.pc = "done"]
    ELSE [r EXCEPT !.proc = "returned"]

\* a catch block that has the upstream stream opened again on a counting error
streamCatchReopens(r, errorMsg) ==
    IF nonCounting(errorMsg, DEFAULT_RETRY_OPTIONS)
    THEN [r EXCEPT !.cb = "ended", !.pc = "done"]
    ELSE [r EXCEPT !.cb = "none", !.proc = "none", !.pc = "upstream", !.upstream = @ + 1]

\* the callback's catch block, up to its await logToFile: a non-counting message
\* ends the session; any other goes on to the final error event
streamCatch(r, errorMsg) ==
    IF nonCounting(errorMsg, DEFAULT_RETRY_OPTIONS)
    THEN [r EXCEPT !.cb = "ended", !.pc = "done"]
    ELSE [r EXCEPT !.cb = "catching"]

\* the upstream yields its next chunk: processStream calls stream.writeSSE(chunk)
ChunkArrives(c) ==
    /\ calls[c].proc = "next"
    /\ calls[c].received < NumChunks
    /\ SetCall(c, [calls[c] EXCEPT !.received = @ + 1, !.proc = "write",
                                   !.trace = Append(@, <<"chunk", calls[c].received + 1>>)])
    /\ UNCHANGED <<probeVars, breakerVars, now, retryOptions, faults, started, upstreamTotal, failed>>

\* stream.writeSSE(chunk) resolves
WriteOk(c) ==
    /\ calls[c].proc = "write"
    /\ SetCall(c, [calls[c] EXCEPT !.proc = "next"])
    /\ UNCHANGED <<probeVars, breakerVars, now, retryOptions, faults, started, upstreamTotal, failed>>

\* a writeSSE rejection after which processStream returns whatever the message is
WriteFailReturns(c, writeError) ==
    /\ calls[c].proc = "write"
    /\ writeError \in WriteErrors
    /\ SetCall(c, procReturn([calls[c] EXCEPT
            !.trace = Append(@, <<"writeFailed", calls[c].received, writeError.message>>)]))
    /\ UNCHANGED <<probeVars, breakerVars, now, retryOptions, faults, started, upstreamTotal, failed>>

\* a writeSSE rejection after which the loop goes on whatever the message is
WriteFailGoesOn(c, writeError) ==
    /\ calls[c].proc = "write"
    /\ writeError \in WriteErrors
    /\ SetCall(c, [calls[c] EXCEPT
            !.proc = "next",
            !.trace = Append(@, <<"writeFailed", calls[c].received, writeError.message>>)])
    /\ UNCHANGED <<probeVars, breakerVars, now, retryOptions, faults, started, upstreamTotal, failed>>

\* stream.writeSSE(chunk) rejects with writeError
WriteFail(c, writeError) ==
    /\ calls[c].proc = "write"
    /\ writeError \in WriteErrors
    /\ LET r == [calls[c] EXCEPT
                    !.trace = Append(@, <<"writeFailed", calls[c].received,
                                         writeError.message>>)]
       IN  IF nonCounting(writeError.message, DEFAULT_RETRY_OPTIONS)
           THEN SetCall(c, procReturn(r))
           ELSE SetCall(c, [r EXCEPT !.proc = "next"])
    /\ UNCHANGED <<probeVars, breakerVars, now, retryOptions, faults, started, upstreamTotal, failed>>

\* the upstream stream ends: onClose(), and the for-await loop is left
UpstreamEnd(c) ==
    /\ calls[c].proc = "next"
    /\ SetBreaker(onClose(Breaker))
    /\ SetCall(c, procReturn(calls[c]))
    /\ UNCHANGED <<backoff, retry, now, retryOptions, faults, started, upstreamTotal, failed>>

\* the open upstream stream fails: onError(err), and the for-await loop throws
UpstreamError(c, err) ==
    /\ calls[c].proc = "next"
    /\ err \in MidStreamErrors
    /\ SetBreaker(onError(Breaker, err, retryOptions, now))
    /\ IF calls[c].cb = "racing"
       THEN SetCall(c, streamCatch([calls[c] EXCEPT !.proc = "threw"], err.message))
       ELSE SetCall(c, [calls[c] EXCEPT !.proc = "threw"])
    /\ UNCHANGED <<backoff, retry, now, retryOptions, faults, started, upstreamTotal, failed>>

\* the catch block after its await: the final error event, unless aborted
FinalError(c) ==
    /\ calls[c].cb = "catching"
    /\ SetCall(c, [calls[c] EXCEPT
            !.cb = "ended", !.pc = "done",
            !.trace = IF calls[c].aborted THEN @ ELSE Append(@, <<"error">>)])
    /\ UNCHANGED <<probeVars, breakerVars, now, retryOptions, faults, started, upstreamTotal, failed>>

\* the client disconnects: the request's signal aborts; a registered listener
\* rejects the aborted promise, which settles a race that is still on
ClientAbort(c) ==
    /\ calls[c].pc \in {"routeJson", "handlerJson", "upstream", "sleep", "relay"}
    /\ ~calls[c].aborted
    /\ IF calls[c].cb = "racing"
       THEN SetCall(c, streamCatch([calls[c] EXCEPT !.aborted = TRUE,
                                                    !.trace = Append(@, <<"cancel">>)],
                                   MsgClientAborted))
       ELSE SetCall(c, [calls[c] EXCEPT !.aborted = TRUE])
    /\ UNCHANGED <<probeVars, breakerVars, now, retryOptions, faults, started, upstreamTotal, failed>>

---------------------------------------------------------------------------
(* The system *)

\* the module state when error-handler.ts has been loaded
LoadedBreaker ==
    [ consecutiveFailures |-> 0,
      circuitOpen |-> FALSE,
      circuitResetTimer |-> 0,
      lastCircuitOpenTime |-> 0,
      recentFailures |-> <<>>,
      timers |-> {},
      nextTimerId |-> 1,
      failureLog |-> <<>>,
      streak |-> 0 ]

\* the module state is b
BreakerIs(b) ==
    /\ consecutiveFailures = b.consecutiveFailures
    /\ circuitOpen = b.circuitOpen
    /\ circuitResetTimer = b.circuitResetTimer
    /\ lastCircuitOpenTime = b.lastCircuitOpenTime
    /\ recentFailures = b.recentFailures
    /\ timers = b.timers
    /\ nextTimerId = b.nextTimerId
    /\ failureLog = b.failureLog
    /\ streak = b.streak

InitBreaker == BreakerIs(LoadedBreaker)

Init ==
    /\ InitBreaker
    /\ now = StartTime
    /\ retryOptions \in Policies
    /\ faults \in NonStreamFaults
    /\ calls = [c \in Calls |-> IdleCall]
    /\ started = 0
    /\ upstreamTotal = 0
    /\ failed = 0
    /\ backoff = NoBackoff
    /\ stats = NoStats
    /\ retry = NoRetry

\* the system serving non-streaming requests
Next ==
    \/ Tick
    \/ TimerFire
    \/ \E c \in Calls : Accept(c, FALSE)
    \/ \E c \in Calls : RouteJsonDone(c)
    \/ \E c \in Calls : HandlerJsonDone(c)
    \/ \E c \in Calls : UpstreamOk(c)
    \/ \E c \in Calls, error \in faults : UpstreamFail(c, error)
    \/ \E c \in Calls : Wake(c)

Spec == Init /\ [][Next]_vars

\* timers run and time passes: a setTimeout callback that is due is run by the
\* event loop
FairSpec == Spec /\ WF_vars(Tick) /\ WF_vars(TimerFire)

\* the system serving streaming requests, for less than RESET_TIMEOUT
InitStream ==
    /\ InitBreaker
    /\ now = StartTime
    /\ retryOptions \in Policies
    /\ faults = StreamOpenErrors
    /\ calls = [c \in Calls |-> IdleCall]
    /\ started = 0
    /\ upstreamTotal = 0
    /\ failed = 0
    /\ backoff = NoBackoff
    /\ stats = NoStats
    /\ retry = NoRetry

NextStream ==
    \/ \E c \in Calls : Accept(c, TRUE)
    \/ \E c \in Calls : RouteJsonDone(c)
    \/ \E c \in Calls : HandlerJsonDone(c)
    \/ \E c \in Calls : UpstreamOk(c)
    \/ \E c \in Calls, error \in faults : UpstreamFail(c, error)
    \/ \E c \in Calls : Wake(c)
    \/ \E c \in Calls : ChunkArrives(c)
    \/ \E c \in Calls : WriteOk(c)
    \/ \E c \in Calls, writeError \in WriteErrors : WriteFail(c, writeError)
    \/ \E c \in Calls : UpstreamEnd(c)
    \/ \E c \in Calls, err \in MidStreamErrors : UpstreamError(c, err)
    \/ \E c \in Calls : FinalError(c)
    \/ \E c \in Calls : ClientAbort(c)

SpecStream == InitStream /\ [][NextStream]_vars

\* the streaming requests of one client, one after the other
NextRelay ==
    \/ \E c \in Relays : Accept(c, TRUE)
    \/ \E c \in Relays : RouteJsonDone(c)
    \/ \E c \in Relays : HandlerJsonDone(c)
    \/ \E c \in Relays : UpstreamOk(c)
    \/ \E c \in Relays, error \in faults : UpstreamFail(c, error)
    \/ \E c \in Relays : Wake(c)
    \/ \E c \in Relays : ChunkArrives(c)
    \/ \E c \in Relays : WriteOk(c)
    \/ \E c \in Relays, writeError \in WriteErrors : WriteFail(c, writeError)
    \/ \E c \in Relays : UpstreamEnd(c)
    \/ \E c \in Relays, err \in MidStreamErrors : UpstreamError(c, err)
    \/ \E c \in Relays : FinalError(c)
    \/ \E c \in Relays : ClientAbort(c)

SpecRelay == InitStream /\ [][NextRelay]_vars

\* failures of opening the upstream stream, an error object that carries both
\* a status and a message among them
OpeningErrors == StreamOpenErrors \cup { FetchError(500, MsgServerError) }

\* one client's streaming requests, the service being called with the default
\* policy or with one whose retryable status codes leave out 500
InitOpening ==
    /\ InitBreaker
    /\ now = StartTime
    /\ retryOptions \in { DEFAULT_RETRY_OPTIONS, RetryOptionsWithout500 }
    /\ faults = OpeningErrors
    /\ calls = [c \in Calls |-> IdleCall]
    /\ started = 0
    /\ upstreamTotal = 0
    /\ failed = 0
    /\ backoff = NoBackoff
    /\ stats = NoStats
    /\ retry = NoRetry

\* the requests up to the point where the upstream stream is open
NextOpening ==
    \/ \E c \in Relays : Accept(c, TRUE)
    \/ \E c \in Relays : RouteJsonDone(c)
    \/ \E c \in Relays : HandlerJsonDone(c)
    \/ \E c \in Relays : UpstreamOk(c)
    \/ \E c \in Relays, error \in faults : UpstreamFail(c, error)
    \/ \E c \in Relays : Wake(c)
    \/ \E c \in Relays : UpstreamEnd(c)

SpecOpening == InitOpening /\ [][NextOpening]_vars

\* a streaming client (the slots of Relays) next to a non-streaming one, both
\* staying connected: the failures the upstream call of slot c may meet
MixedErrors(c) == IF c \in Relays THEN StreamOpenErrors ELSE Only500

InitMixed ==
    /\ InitBreaker
    /\ now = StartTime
    /\ retryOptions \in Policies
    /\ faults = StreamOpenErrors \cup Only500
    /\ calls = [c \in Calls |-> IdleCall]
    /\ started = 0
    /\ upstreamTotal = 0
    /\ failed = 0
    /\ backoff = NoBackoff
    /\ stats = NoStats
    /\ retry = NoRetry

NextMixed ==
    \/ \E c \in Calls : Accept(c, c \in Relays)
    \/ \E c \in Calls : RouteJsonDone(c)
    \/ \E c \in Calls : HandlerJsonDone(c)
    \/ \E c \in Calls : UpstreamOk(c)
    \/ \E c \in Calls : \E error \in MixedErrors(c) : UpstreamFail(c, error)
    \/ \E c \in Calls : Wake(c)
    \/ \E c \in Calls : ChunkArrives(c)
    \/ \E c \in Calls : WriteOk(c)
    \/ \E c \in Calls, writeError \in WriteErrors : WriteFail(c, writeError)
    \/ \E c \in Calls : UpstreamEnd(c)
    \/ \E c \in Calls, err \in MidStreamErrors : UpstreamError(c, err)
    \/ \E c \in Calls : FinalError(c)

SpecMixed == InitMixed /\ [][NextMixed]_vars

---------------------------------------------------------------------------
(* The breaker driven directly through the exports of error-handler.ts *)

\* recordFailure is handed (statusCode, errorMessage) pairs; within one run they
\* come from one of these sets: a counting and a non-counting message, or a
\* counting message alone
BreakerFaults ==
    { { FetchError(500, MsgServerError), FetchError(500, MsgOperationAborted) },
      { FetchError(400, MsgBadRequest), FetchError(0, MsgOperationAborted) },
      { FetchError(0, EmptyString), FetchError(504, MsgGatewayTimeout) },
      { FetchError(503, MsgServerError) } }

\* a run that records one kind of failure only is followed twice as long, so
\* that the breaker opens a second time; the failures of a backlog the run
\* starts with are not counted
RecordBudget ==
    (IF Cardinality(faults) = 1 THEN 2 * MaxRecorded ELSE MaxRecorded)
        + (IF Len(failureLog) >= MaxBacklog THEN MaxBacklog ELSE 0)

\* recordFailure(f.status, f.message, retryOptions)
RecordFailureCall(f) ==
    /\ f \in faults
    /\ Len(failureLog) < RecordBudget
    /\ SetBreaker(recordFailure(Breaker, f.status, f.message, retryOptions, now))
    /\ UNCHANGED <<backoff, retry, now, retryOptions, faults, calls, started, upstreamTotal, failed>>

\* recordSuccess()
RecordSuccessCall ==
    /\ SetBreaker(recordSuccess(Breaker))
    /\ UNCHANGED <<backoff, retry, now, retryOptions, faults, calls, started, upstreamTotal, failed>>

InitBreakerOnly ==
    /\ InitBreaker
    /\ now = StartTime
    /\ retryOptions = DEFAULT_RETRY_OPTIONS
    /\ faults \in BreakerFaults
    /\ calls = [c \in Calls |-> IdleCall]
    /\ started = 0
    /\ upstreamTotal = 0
    /\ failed = 0
    /\ backoff = NoBackoff
    /\ stats = NoStats
    /\ retry = NoRetry

NextBreaker ==
    \/ Tick
    \/ TimerFire
    \/ \E f \in faults : RecordFailureCall(f)
    \/ RecordSuccessCall

SpecBreaker == InitBreakerOnly /\ [][NextBreaker]_vars

---------------------------------------------------------------------------
(* The breaker driven directly, after earlier traffic has filled most of
   recentFailures *)

\* the module state after n recordFailure calls at StartTime for aborted
\* requests, reported with status 0 and 500 in turn
RECURSIVE Backlog(_)
Backlog(n) ==
    IF n = 0
    THEN LoadedBreaker
    ELSE recordFailure(Backlog(n - 1), IF n % 2 = 0 THEN 0 ELSE 500,
                       MsgOperationAborted, DEFAULT_RETRY_OPTIONS, StartTime)

BacklogBreaker == Backlog(MaxBacklog)

InitRecent ==
    /\ BreakerIs(BacklogBreaker)
    /\ now = StartTime
    /\ retryOptions = DEFAULT_RETRY_OPTIONS
    /\ faults \in BreakerFaults
    /\ calls = [c \in Calls |-> IdleCall]
    /\ started = 0
    /\ upstreamTotal = 0
    /\ failed = 0
    /\ backoff = NoBackoff
    /\ stats = NoStats
    /\ retry = NoRetry

SpecRecent == InitRecent /\ [][NextBreaker]_vars

---------------------------------------------------------------------------
(* getFailureStats called while the breaker is driven directly *)

\* GET /status, or any caller of getFailureStats(): the caller holds the object
StatusCall ==
    /\ stats' = getFailureStats(Breaker)
    /\ UNCHANGED <<backoff, retry, breakerVars, now, retryOptions, faults, calls, started,
                   upstreamTotal, failed>>

\* the caller empties the list it was given (list.length = 0); if that list is
\* the module's own array, the module loses its entries too
ReturnedListClear ==
    /\ stats # NoStats
    /\ stats.recentFailures.items # <<>>
    /\ stats' = [stats EXCEPT !.recentFailures.items = <<>>]
    /\ recentFailures' = IF stats.recentFailures.array = "recentFailures"
                         THEN <<>> ELSE recentFailures
    /\ UNCHANGED <<backoff, retry, consecutiveFailures, circuitOpen, circuitResetTimer,
                   lastCircuitOpenTime, timers, nextTimerId, failureLog, streak, now,
                   retryOptions, faults, calls, started, upstreamTotal, failed>>

InitStatus ==
    /\ InitBreaker
    /\ now = StartTime
    /\ retryOptions = DEFAULT_RETRY_OPTIONS
    /\ faults = Only500
    /\ calls = [c \in Calls |-> IdleCall]
    /\ started = 0
    /\ upstreamTotal = 0
    /\ failed = 0
    /\ backoff = NoBackoff
    /\ stats = NoStats
    /\ retry = NoRetry

NextStatus ==
    \/ NextBreaker
    \/ StatusCall
    \/ ReturnedListClear

SpecStatus == InitStatus /\ [][NextStatus]_vars

---------------------------------------------------------------------------
(* calculateBackoff called directly *)

\* the delay settings calculateBackoff is called with: the default ones,
\* slower-starting, steeper ones, and the smallest ones a policy may carry
BackoffPolicies ==
    { DEFAULT_RETRY_OPTIONS,
      [DEFAULT_RETRY_OPTIONS EXCEPT !.initialDelayMs = 500, !.backoffFactor = 3],
      [DEFAULT_RETRY_OPTIONS EXCEPT !.initialDelayMs = 0],
      [DEFAULT_RETRY_OPTIONS EXCEPT !.maxDelayMs = 0],
      [DEFAULT_RETRY_OPTIONS EXCEPT !.initialDelayMs = 1, !.backoffFactor = 1] }

\* calculateBackoff(attempt, retryOptions), Math.random() yielding k / RandomSteps
CalculateBackoffCall(attempt, k) ==
    /\ backoff' = [attempt |-> attempt, random |-> k,
                   delay |-> calculateBackoff(attempt, retryOptions, k)]
    /\ UNCHANGED <<stats, retry, breakerVars, now, retryOptions, faults, calls, started,
                   upstreamTotal, failed>>

InitBackoff ==
    /\ InitBreaker
    /\ now = StartTime
    /\ retryOptions \in BackoffPolicies
    /\ faults = {}
    /\ calls = [c \in Calls |-> IdleCall]
    /\ started = 0
    /\ upstreamTotal = 0
    /\ failed = 0
    /\ backoff = NoBackoff
    /\ stats = NoStats
    /\ retry = NoRetry

NextBackoff ==
    \E attempt \in 0..MaxAttempt, k \in 0..(RandomSteps - 1) :
        CalculateBackoffCall(attempt, k)

SpecBackoff == InitBackoff /\ [][NextBackoff]_vars

---------------------------------------------------------------------------
(* shouldRetry called directly *)

\* shouldRetry(statusCode, errorMessage, retryOptions)
ShouldRetryCall(statusCode, errorMessage) ==
    /\ retry' = [statusCode |-> statusCode, errorMessage |-> errorMessage,
                 result |-> shouldRetry(statusCode, errorMessage, retryOptions)]
    /\ UNCHANGED <<backoff, stats, breakerVars, now, retryOptions, faults, calls, started,
                   upstreamTotal, failed>>

InitShouldRetry ==
    /\ InitBreaker
    /\ now = StartTime
    /\ retryOptions \in AllPolicies
    /\ faults = {}
    /\ calls = [c \in Calls |-> IdleCall]
    /\ started = 0
    /\ upstreamTotal = 0
    /\ failed = 0
    /\ backoff = NoBackoff
    /\ stats = NoStats
    /\ retry = NoRetry

NextShouldRetry ==
    \E statusCode \in StatusCodes, errorMessage \in Messages :
        ShouldRetryCall(statusCode, errorMessage)

SpecShouldRetry == InitShouldRetry /\ [][NextShouldRetry]_vars

---------------------------------------------------------------------------
(* Properties *)

\* C1: when five counting failures have been recorded with no success (or reset)
\* in between, the breaker is open; and a call that enters chatCompletions or
\* chatCompletionsStream while the breaker is open ends there with the
\* breaker-open error and without an upstream attempt.
C1_FastFailAfterThreshold ==
    /\ [](streak >= FAILURE_THRESHOLD => isCircuitOpen(Breaker))
    /\ [][\A c \in Calls :
            (isCircuitOpen(Breaker) /\ HandlerJsonDone(c)) =>
                /\ calls'[c].pc = "done"
                /\ calls'[c].error = PlainError(MsgBreakerOpen)
                /\ calls'[c].upstream = 0
                /\ upstreamTotal' = upstreamTotal]_vars

\* the fifth failure in a row has opened the breaker and a call that had passed
\* the route's check was stopped at the service's check
C1_Witness ==
    \E c \in Calls :
        /\ streak = FAILURE_THRESHOLD
        /\ circuitOpen
        /\ calls[c].pc = "done"
        /\ calls[c].error = PlainError(MsgBreakerOpen)
        /\ calls[c].upstream = 0

\* C2: recordSuccess() leaves consecutiveFailures = 0 and the breaker closed
\* and no timer callback pending; a timer callback only ever runs while the
\* breaker is open, that is, after an opening that no success has followed.
C2_SuccessResetsAndCancels ==
    /\ [][RecordSuccessCall =>
            (consecutiveFailures' = 0 /\ ~circuitOpen' /\ timers' = {})]_vars
    /\ [][TimerFire => circuitOpen]_vars

\* a success has closed an open breaker and cancelled its timer
C2_Witness ==
    /\ ~circuitOpen
    /\ consecutiveFailures = 0
    /\ nextTimerId > 1
    /\ circuitResetTimer = 0
    /\ timers = {}

\* C3: one chatCompletions call makes at most maxRetries + 1 upstream attempts;
\* when an attempt succeeds the call returns (200) with that response and no
\* further attempt, and a call that has returned makes no attempt any more.
C3_AttemptsBounded ==
    /\ [](\A c \in Calls : calls[c].upstream <= retryOptions.maxRetries + 1)
    /\ [][\A c \in Calls :
            /\ UpstreamOk(c) =>
                  /\ calls'[c].pc = "done"
                  /\ calls'[c].http = 200
                  /\ calls'[c].upstream = calls[c].upstream
                  /\ upstreamTotal' = upstreamTotal
            /\ calls[c].pc = "done" => calls'[c].upstream <= calls[c].upstream]_vars

\* a call has succeeded at its last permitted attempt, after retries
C3_Witness ==
    \E c \in Calls :
        /\ calls[c].pc = "done"
        /\ calls[c].http = 200
        /\ calls[c].upstream = retryOptions.maxRetries + 1
        /\ calls[c].upstream > 1

\* the scenario of C4: the default policy, an upstream that fails with status
\* 500 and a counting message whenever it fails, and no success (or reset)
\* since the first failure was recorded
C4_Scenario ==
    /\ retryOptions = DEFAULT_RETRY_OPTIONS
    /\ faults = Only500
    /\ streak = Len(failureLog)

\* the failed attempts a request in flight has behind it
C4_Behind(r) ==
    IF r.pc = "upstream" THEN r.upstream - 1
    ELSE IF r.pc = "sleep" THEN r.upstream
    ELSE 0

\* the failed upstream attempts so far, counted on the side of the requests:
\* maxRetries + 1 for each call that has failed, and those behind the calls in
\* flight
C4_FailedAttempts ==
    (retryOptions.maxRetries + 1) * failed + C4_Behind(calls[1]) + C4_Behind(calls[2])

\* C4 as stated: with calls made one after the other, the breaker is closed
\* until five calls have failed.
C4_OpensAfterFifthCall ==
    (C4_Scenario /\ calls[2] = IdleCall) =>
        (failed < FAILURE_THRESHOLD => ~isCircuitOpen(Breaker))

\* C4, amended: every failed attempt is recorded, retried ones included, so the
\* breaker is open exactly when five attempts have failed: closed after the
\* first call has failed (four attempts), open from the first failed attempt of
\* the second call; a call made while it is open is answered 503 with no
\* upstream attempt.
C4_OpensAtFifthFailedAttempt ==
    /\ [](C4_Scenario =>
            (isCircuitOpen(Breaker) <=> C4_FailedAttempts >= FAILURE_THRESHOLD))
    /\ [][\A c \in Calls :
            (C4_Scenario /\ UpstreamFail(c, FetchError(500, MsgServerError))) =>
                Len(failureLog') = Len(failureLog) + 1]_vars
    /\ [][\A c \in Calls :
            (C4_Scenario /\ isCircuitOpen(Breaker) /\ Accept(c, FALSE)) =>
                /\ calls'[c].pc = "done"
                /\ calls'[c].http = 503
                /\ calls'[c].upstream = 0
                /\ upstreamTotal' = upstreamTotal]_vars

\* one call has failed, the second call's first attempt has failed and opened
\* the breaker, and a third call was turned away
C4_Witness ==
    /\ C4_Scenario
    /\ circuitOpen
    /\ failed = 1
    /\ C4_FailedAttempts = FAILURE_THRESHOLD
    /\ \E c \in Calls :
          calls[c].pc = "done" /\ calls[c].http = 503 /\ calls[c].upstream = 0

\* C5: an open breaker is eventually closed again (by the timer callback
\* unless a success closes it first); the callback closes the breaker and
\* zeroes consecutiveFailures whatever the state is; and a call entering the
\* service while the breaker is closed is attempted upstream.
C5_AutoResetFires ==
    /\ circuitOpen ~> ~circuitOpen
    /\ [][TimerFire => (~circuitOpen' /\ consecutiveFailures' = 0)]_vars
    /\ [][\A c \in Calls :
            (~circuitOpen /\ HandlerJsonDone(c)) =>
                (calls'[c].pc = "upstream" /\ calls'[c].upstream = 1)]_vars

\* the breaker has opened once, the timer callback (no success: the handle is
\* still set) has closed it, and a call accepted after that is at the upstream
C5_Witness ==
    /\ ~circuitOpen
    /\ nextTimerId = 2
    /\ circuitResetTimer # 0
    /\ timers = {}
    /\ \E c \in Calls : calls[c].pc = "upstream" /\ calls[c].gen = 1

\* C6: a call rejected because the breaker is open is answered 503, also when
\* it is the service's check that rejects it.
C6_BreakerOpenIs503 ==
    \A c \in Calls :
        (calls[c].pc = "done" /\ calls[c].error = PlainError(MsgBreakerOpen)) =>
            calls[c].http = 503

\* C7: recentFailures never holds more than MAX_RECENT_FAILURES entries, and it
\* is the newest-first list of the most recently recorded failures: the head
\* of the log of all failures recorded, so that on overflow the oldest entry
\* is the one that goes.
C7_RecentFailuresNewestFirst ==
    /\ Len(recentFailures) <= MAX_RECENT_FAILURES
    /\ recentFailures =
          SubSeq(failureLog, 1,
                 IF Len(failureLog) > MAX_RECENT_FAILURES
                 THEN MAX_RECENT_FAILURES ELSE Len(failureLog))

\* more failures were recorded than the list holds, and the newest entry
\* differs from the oldest one kept and from the one evicted last
C7_Witness ==
    /\ Len(failureLog) > MAX_RECENT_FAILURES
    /\ Len(recentFailures) = MAX_RECENT_FAILURES
    /\ recentFailures[1] # recentFailures[MAX_RECENT_FAILURES]
    /\ recentFailures[1] # failureLog[MAX_RECENT_FAILURES + 1]

\* C8: recordFailure with a non-counting message, whatever the status code,
\* leaves consecutiveFailures, circuitOpen, lastCircuitOpenTime, the timer
\* handle and the pending timer callbacks as they were, and pushes one entry
\* onto recentFailures.
C8_NonCountingOnlyPushes ==
    [][\A f \in faults :
        (isNonCountingError(f.message, retryOptions) /\ RecordFailureCall(f)) =>
            /\ consecutiveFailures' = consecutiveFailures
            /\ circuitOpen' = circuitOpen
            /\ lastCircuitOpenTime' = lastCircuitOpenTime
            /\ circuitResetTimer' = circuitResetTimer
            /\ timers' = timers
            /\ recentFailures' =
                  pushRecent(recentFailures,
                             [timestamp |-> now, statusCode |-> f.status,
                              message |-> f.message])]_vars

\* a non-counting failure was recorded last, while the breaker was open with
\* its timer pending
C8_Witness ==
    /\ circuitOpen
    /\ timers # {}
    /\ Len(failureLog) > FAILURE_THRESHOLD
    /\ isNonCountingError(failureLog[1].message, retryOptions)

\* C9: with maxRetries = 3 and an upstream that failed with 503 on the first
\* three attempts, the success of the fourth attempt returns the response (200)
\* after four attempts in all and leaves consecutiveFailures = 0 and the
\* breaker closed, whatever they were before.
C9_SuccessAfterThree503 ==
    [][\A c \in Calls :
        ( /\ retryOptions.maxRetries = 3
          /\ faults = NonStreamErrors(503)
          /\ calls[c].attempt = 3
          /\ UpstreamOk(c) ) =>
            /\ calls'[c].pc = "done"
            /\ calls'[c].http = 200
            /\ calls'[c].upstream = 4
            /\ consecutiveFailures' = 0
            /\ ~circuitOpen']_vars

\* such a call has returned; the failures of another call had meanwhile opened
\* the breaker, which the success closed
C9_Witness ==
    /\ retryOptions.maxRetries = 3
    /\ faults = NonStreamErrors(503)
    /\ consecutiveFailures = 0
    /\ ~circuitOpen
    /\ nextTimerId = 2
    /\ circuitResetTimer = 0
    /\ \E c \in Calls :
          /\ calls[c].pc = "done"
          /\ calls[c].http = 200
          /\ calls[c].attempt = 3
          /\ calls[c].upstream = 4
          /\ calls[c].gen = 0

\* C10: once the cancellation has won the race of a session, that session
\* calls writeSSE for no further chunk and emits no error event: nothing
\* follows the cancellation in the session's trace.
C10_NothingAfterCancel ==
    \A c \in Calls :
        \A i \in 1..Len(calls[c].trace) :
            calls[c].trace[i] = <<"cancel">> => i = Len(calls[c].trace)

\* C11: when writeSSE fails with a non-counting message, processStream returns:
\* the breaker is left as it was (no recordFailure), nothing but the failed
\* write is added to the session's trace (no error event), a callback still in
\* the race ends with it, and after the return the session calls writeSSE no
\* more.
C11_CancelledWriteEndsQuietly ==
    /\ [][\A c \in Calls : \A writeError \in WriteErrors :
            (nonCounting(writeError.message, DEFAULT_RETRY_OPTIONS)
                /\ WriteFail(c, writeError)) =>
                /\ calls'[c].proc = "returned"
                /\ calls'[c].trace =
                      Append(calls[c].trace,
                             <<"writeFailed", calls[c].received, writeError.message>>)
                /\ calls[c].cb = "racing" =>
                      (calls'[c].cb = "ended" /\ calls'[c].pc = "done")
                /\ UNCHANGED breakerVars]_vars
    /\ [][\A c \in Calls :
            (calls[c].proc = "returned" /\ calls'[c].proc = "returned") =>
                calls'[c].trace = calls[c].trace]_vars

\* a session has ended on a write that failed with a non-counting message,
\* before the upstream was exhausted
C11_Witness ==
    \E c \in Calls :
        /\ calls[c].pc = "done"
        /\ calls[c].proc = "returned"
        /\ calls[c].cb = "ended"
        /\ calls[c].received < NumChunks
        /\ Len(calls[c].trace) = 2
        /\ calls[c].trace[2] = <<"writeFailed", 1, MsgOperationAborted>>

\* the chunks of a session's trace, in the order of their writeSSE calls
C12_ChunksWritten(r) == SelectSeq(r.trace, LAMBDA e : e[1] = "chunk")

\* C12: when writeSSE fails with a message that is not non-counting, the relay
\* goes on: processStream waits for the next upstream chunk, the session and
\* the breaker are as before, and every chunk the upstream yields, before and
\* after such a failure, is handed to writeSSE once and in order.
C12_WriteErrorDoesNotAbort ==
    /\ [][\A c \in Calls : \A writeError \in WriteErrors :
            (~nonCounting(writeError.message, DEFAULT_RETRY_OPTIONS)
                /\ WriteFail(c, writeError)) =>
                /\ calls'[c].proc = "next"
                /\ calls'[c].pc = calls[c].pc
                /\ calls'[c].cb = calls[c].cb
                /\ calls'[c].received = calls[c].received
                /\ UNCHANGED breakerVars]_vars
    /\ [](\A c \in Calls :
            C12_ChunksWritten(calls[c]) =
                [i \in 1..calls[c].received |-> <<"chunk", i>>])

\* the first write failed with a counting message, the second chunk was handed
\* to the sink all the same, and the session is still relaying
C12_Witness ==
    \E c \in Calls :
        /\ calls[c].pc = "relay"
        /\ calls[c].cb = "racing"
        /\ calls[c].trace =
              << <<"chunk", 1>>, <<"writeFailed", 1, MsgWriteFailed>>, <<"chunk", 2>> >>

\* the delay last returned lies between lo and hi ms
C13_Within(lo, hi) ==
    lo * DelayUnit <= backoff.delay /\ backoff.delay <= hi * DelayUnit

\* C13: with initialDelayMs 1000, backoffFactor 2 and maxDelayMs 10000 the
\* delay lies in [800, 1200], [1600, 2400], [3200, 4800], [6400, 9600] for
\* attempts 0 to 3 and in [8000, 10000] for every later attempt.
C13_BackoffRanges ==
    (retryOptions = DEFAULT_RETRY_OPTIONS /\ backoff # NoBackoff) =>
        CASE backoff.attempt = 0 -> C13_Within(800, 1200)
          [] backoff.attempt = 1 -> C13_Within(1600, 2400)
          [] backoff.attempt = 2 -> C13_Within(3200, 4800)
          [] backoff.attempt = 3 -> C13_Within(6400, 9600)
          [] OTHER -> C13_Within(8000, 10000)

\* C14: a call that ended on a failure answered by the upstream (the error
\* carries the upstream's status), its client still connected, is not answered
\* 499.
C14_UpstreamFailureIsNot499 ==
    \A c \in Calls :
        ( /\ calls[c].pc = "done"
          /\ ~calls[c].aborted
          /\ calls[c].error.kind = "FetchError"
          /\ calls[c].error.status # 0 ) =>
            calls[c].http # 499

\* C15: getFailureStats() changes no field of the breaker state and reports the
\* fields as they are; the list it returns is a copy: a failure recorded later
\* leaves the returned object as it was, and emptying the returned list leaves
\* the module's recentFailures as it was.
C15_StatsReadOnlyCopy ==
    /\ [][StatusCall =>
            /\ UNCHANGED breakerVars
            /\ stats'.consecutiveFailures = consecutiveFailures
            /\ stats'.circuitOpen = circuitOpen
            /\ stats'.recentFailures.items = recentFailures]_vars
    /\ [][\A f \in faults : RecordFailureCall(f) => stats' = stats]_vars
    /\ [][ReturnedListClear => UNCHANGED breakerVars]_vars

\* a caller holds a snapshot it has emptied, and the module's list, which has
\* grown since the snapshot was taken, still has its entries
C15_Witness ==
    /\ stats # NoStats
    /\ stats.recentFailures.items = <<>>
    /\ stats.consecutiveFailures > 0
    /\ Len(recentFailures) > stats.consecutiveFailures

\* C16: whatever the interleaving of recordSuccess, recordFailure and the
\* timer callback, the breaker is open exactly when consecutiveFailures is at
\* least FAILURE_THRESHOLD.
C16_OpenIffThreshold ==
    isCircuitOpen(Breaker) <=> consecutiveFailures >= FAILURE_THRESHOLD

\* the breaker has opened a second time and further failures were recorded
\* while it was open
C16_Witness ==
    /\ circuitOpen
    /\ consecutiveFailures > FAILURE_THRESHOLD
    /\ nextTimerId > 2

\* C17: when an attempt of chatCompletions fails with a non-counting message,
\* the call ends at once with that error: no further attempt, and the breaker
\* state (recentFailures included) is what it was, so recordFailure was not
\* called.
C17_NonCountingPropagates ==
    [][\A c \in Calls : \A error \in faults :
        ( /\ nonCounting(error.message, retryOptions)
          /\ ~calls[c].stream
          /\ UpstreamFail(c, error) ) =>
            /\ calls'[c].pc = "done"
            /\ calls'[c].error = error
            /\ calls'[c].upstream = calls[c].upstream
            /\ upstreamTotal' = upstreamTotal
            /\ UNCHANGED breakerVars]_vars

\* a call's second attempt failed with a non-counting message and ended the
\* call; only the first attempt's failure is on record
C17_Witness ==
    \E c \in Calls :
        /\ calls[c].pc = "done"
        /\ calls[c].error = FetchError(504, MsgGatewayTimeout)
        /\ calls[c].upstream = 2
        /\ started = 1
        /\ Len(failureLog) = 1
        /\ consecutiveFailures = 1

\* C18: the failure that ended a call after at least one upstream attempt is
\* among the recorded failures (recentFailures holds them all while fewer than
\* MAX_RECENT_FAILURES were recorded), whether its message counts or not.
C18_EveryFailureAppended ==
    \A c \in Calls :
        ( /\ calls[c].pc = "done"
          /\ calls[c].upstream > 0
          /\ calls[c].error # NoError
          /\ Len(failureLog) < MAX_RECENT_FAILURES ) =>
            \E i \in 1..Len(recentFailures) :
                recentFailures[i].message = calls[c].error.message

\* C19: when an attempt of chatCompletions fails with a counting message and a
\* status that is not among the retryable ones, that step records the failure
\* once (consecutiveFailures and the number of recorded failures go up by
\* exactly one), issues no further upstream call, and ends the call with that
\* error; a call that has ended makes no attempt afterwards.
C19_NonRetryableRecordedOnce ==
    [][\A c \in Calls :
        /\ \A error \in faults :
            LET statusCode == IF error.kind = "FetchError" THEN error.status ELSE 0
            IN  ( /\ ~nonCounting(error.message, retryOptions)
                  /\ ~arrayIncludes(retryOptions.retryableStatusCodes, statusCode)
                  /\ ~calls[c].stream
                  /\ UpstreamFail(c, error) ) =>
                    /\ consecutiveFailures' = consecutiveFailures + 1
                    /\ Len(failureLog') = Len(failureLog) + 1
                    /\ failureLog'[1].message = error.message
                    /\ calls'[c].pc = "done"
                    /\ calls'[c].error = error
                    /\ calls'[c].upstream = calls[c].upstream
                    /\ upstreamTotal' = upstreamTotal
        /\ ( calls[c].pc = "done" /\ calls'[c].upstream # 0 ) =>
                calls'[c].upstream = calls[c].upstream]_vars

\* a call's second attempt failed with status 400 and ended the call: the
\* retried failure and the final one are on record, once each
C19_Witness ==
    \E c \in Calls :
        /\ calls[c].pc = "done"
        /\ ~calls[c].stream
        /\ calls[c].error = FetchError(400, MsgBadRequest)
        /\ calls[c].upstream = 2
        /\ started = 1
        /\ Len(failureLog) = 2
        /\ consecutiveFailures = 2

\* C20: when an open upstream stream fails with a message that is not
\* non-counting while the relay is still racing, the step hands the error to
\* the callback's catch block, which goes on to the final error event, and
\* records the failure (one new recorded failure carrying its message),
\* whatever the status of the error, absent and non-retryable ones included.
C20_TerminalStreamErrorRecorded ==
    [][\A c \in Calls : \A err \in MidStreamErrors :
        ( /\ ~nonCounting(err.message, retryOptions)
          /\ calls[c].cb = "racing"
          /\ UpstreamError(c, err) ) =>
            /\ calls'[c].cb = "catching"
            /\ Len(failureLog') = Len(failureLog) + 1
            /\ failureLog'[1].message = err.message]_vars

\* C21: when opening the upstream stream fails with a counting error,
\* chatCompletionsStream records the failure, and goes to its backoff sleep
\* exactly when attempt < maxRetries and shouldRetry(statusCode, message,
\* policy) hold; otherwise the call ends with that error.
C21_OpeningRetriedOnlyIfShouldRetry ==
    [][\A c \in Calls : \A error \in faults :
        LET errorMsg == IF error.message = EmptyString
                        THEN MsgUnknownStreamingError ELSE error.message
        IN  ( /\ calls[c].stream
              /\ ~nonCounting(errorMsg, retryOptions)
              /\ UpstreamFail(c, error) ) =>
                /\ Len(failureLog') = Len(failureLog) + 1
                /\ failureLog'[1].message = errorMsg
                /\ calls'[c].pc = "sleep" <=>
                      ( /\ calls[c].attempt < retryOptions.maxRetries
                        /\ retryable(error.status, errorMsg, retryOptions) )
                /\ calls'[c].pc # "sleep" =>
                      calls'[c].pc = "done" /\ calls'[c].error = error]_vars

\* C22: a streaming session makes at most maxRetries + 1 opening attempts, and
\* once its upstream stream has been opened (processStream has started) no step
\* of that session, whether an upstream error, a write failure, a cancellation
\* or the end of the stream, issues another upstream call: the number of
\* attempts stays what it was and the session never waits for an upstream
\* opening again.
C22_OpenedAtMostOnce ==
    /\ [](\A c \in Calls :
            calls[c].stream => calls[c].upstream <= retryOptions.maxRetries + 1)
    /\ [][\A c \in Calls :
            ( /\ calls[c].stream
              /\ calls[c].proc # "none"
              /\ started' = started ) =>
                /\ calls'[c].upstream = calls[c].upstream
                /\ calls'[c].pc \in {"relay", "done"}
                /\ calls'[c].proc # "none"
                /\ upstreamTotal' = upstreamTotal]_vars

\* a session whose stream was opened at the second attempt, relayed a chunk,
\* then failed upstream and was ended with the final error event: two upstream
\* calls were made in all
C22_Witness ==
    \E c \in Calls :
        /\ calls[c].stream
        /\ calls[c].pc = "done"
        /\ calls[c].proc = "threw"
        /\ calls[c].upstream = 2
        /\ upstreamTotal = 2
        /\ calls[c].trace = << <<"chunk", 1>>, <<"error">> >>

\* the reference of shouldRetry as the specification words it
C23_Reference(statusCode, message, policy) ==
    IF nonCounting(message, policy) THEN FALSE
    ELSE IF statusCode = 500 /\ includes(message, MsgUnknownStreamingErrorLower) THEN TRUE
    ELSE statusCode \in { policy.retryableStatusCodes[i] :
                            i \in 1..Len(policy.retryableStatusCodes) }

\* C23: for every status, message and policy, shouldRetry returns what the
\* reference gives: false for a non-counting message, else true for status 500
\* with a message containing "unknown streaming error", else whether the status
\* is one of the policy's retryable status codes.
C23_ShouldRetryIsReference ==
    retry # NoRetry =>
        retry.result = C23_Reference(retry.statusCode, retry.errorMessage, retryOptions)

\* C24: within one call the attempts follow one another: while an upstream
\* call is out or the call sleeps, as many upstream calls were made as the
\* attempt number says, and a new upstream call is issued only at the start of
\* the call or by a call that was in its backoff sleep after a failed attempt,
\* which then moves to the next attempt number. Within one stream, the k-th
\* chunk handed to writeSSE is the k-th chunk the upstream yielded.
C24_SequentialAndInOrder ==
    /\ [](\A c \in Calls :
            calls[c].pc \in {"upstream", "sleep"} =>
                calls[c].upstream = calls[c].attempt + 1)
    /\ [][\A c \in Calls :
            calls'[c].upstream = calls[c].upstream + 1 =>
                \/ calls[c].pc = "handlerJson" /\ calls[c].upstream = 0
                \/ /\ calls[c].pc = "sleep"
                   /\ calls[c].error = NoError
                   /\ calls'[c].attempt = calls[c].attempt + 1
                   /\ calls'[c].pc = "upstream"]_vars
    /\ [](\A c \in Calls :
            LET written == C12_ChunksWritten(calls[c])
            IN  /\ Len(written) = calls[c].received
                /\ \A i, j \in 1..Len(written) :
                      i < j => written[i][2] < written[j][2])

\* the non-streaming call is at its third attempt while the stream of the other
\* client has relayed both chunks around a failed write
C24_Witness ==
    \E c, d \in Calls :
        /\ ~calls[c].stream
        /\ calls[c].pc = "upstream"
        /\ calls[c].attempt = 2
        /\ calls[c].upstream = 3
        /\ calls[d].stream
        /\ calls[d].trace =
              << <<"chunk", 1>>, <<"writeFailed", 1, MsgWriteFailed>>, <<"chunk", 2>> >>

\* C25: whatever the attempt number, the policy (initialDelayMs >= 0,
\* backoffFactor >= 1, maxDelayMs >= 0) and the random draw, the delay
\* calculateBackoff returns is not negative.
C25_BackoffNotNegative ==
    /\ retryOptions.initialDelayMs >= 0
    /\ retryOptions.backoffFactor >= 1
    /\ retryOptions.maxDelayMs >= 0
    /\ backoff.delay >= 0

\* the smallest draw at a capped attempt of the default policy: the delay is
\* four fifths of maxDelayMs
C25_Witness ==
    /\ retryOptions = DEFAULT_RETRY_OPTIONS
    /\ backoff.attempt = 4
    /\ backoff.random = 0
    /\ backoff.delay = 8000 * DelayUnit

\* C26: at most one auto-reset timer is pending, and one is pending exactly
\* when the breaker is open; the pending one is the timer of the current
\* opening (its handle is circuitResetTimer and it is due RESET_TIMEOUT after
\* lastCircuitOpenTime), so a timer callback never runs before the timeout of
\* the opening it closes.
C26_OneTimerIffOpen ==
    /\ [](Cardinality(timers) <= 1)
    /\ [](timers # {} <=> circuitOpen)
    /\ [](\A t \in timers :
            t.id = circuitResetTimer /\ t.due = lastCircuitOpenTime + RESET_TIMEOUT)
    /\ [][TimerFire => (circuitOpen /\ now >= lastCircuitOpenTime + RESET_TIMEOUT)]_vars

\* the breaker is open for the second time, opened later than the first time,
\* and the one pending timer is the second opening's
C26_Witness ==
    /\ circuitOpen
    /\ lastCircuitOpenTime > StartTime
    /\ timers = {[id |-> 2, due |-> lastCircuitOpenTime + RESET_TIMEOUT]}

\* C27: the breaker is consulted once, on entry to chatCompletions or
\* chatCompletionsStream: a call ends with the breaker-open error only before
\* its first upstream attempt, and a call that leaves its backoff sleep while
\* the breaker is open issues its next upstream attempt all the same.
C27_BreakerConsultedOnce ==
    /\ [](\A c \in Calls :
            calls[c].error = PlainError(MsgBreakerOpen) =>
                calls[c].upstream = 0 /\ calls[c].attempt = 0)
    /\ [][\A c \in Calls :
            (isCircuitOpen(Breaker) /\ Wake(c)) =>
                /\ calls'[c].pc = "upstream"
                /\ calls'[c].error = NoError
                /\ calls'[c].upstream = calls[c].upstream + 1]_vars

\* the non-streaming call has failed four times; the streaming call's first
\* opening attempt was the fifth failure and opened the breaker, and its second
\* attempt is out while the breaker is open
C27_Witness ==
    \E c, d \in Calls :
        /\ started = 2
        /\ ~calls[d].stream /\ calls[d].pc = "done" /\ calls[d].upstream = 4
        /\ calls[c].stream /\ calls[c].pc = "upstream" /\ calls[c].attempt = 1
        /\ Len(failureLog) = 5
        /\ failureLog[1].message = MsgUnknownStreamingError
        /\ isCircuitOpen(Breaker)

\* C28 as stated: a counting recordFailure on an open breaker increments
\* consecutiveFailures and changes nothing else of the module state.
C28_OnlyCounterChanges ==
    [][\A f \in faults :
        ( /\ isCircuitOpen(Breaker)
          /\ ~skipsCount(f.message, retryOptions)
          /\ RecordFailureCall(f) ) =>
            /\ consecutiveFailures' = consecutiveFailures + 1
            /\ UNCHANGED <<circuitOpen, circuitResetTimer, lastCircuitOpenTime,
                           recentFailures, timers, nextTimerId>>]_vars

\* C28: a counting recordFailure on an open breaker increments
\* consecutiveFailures and puts its entry at the head of recentFailures, and
\* changes nothing else: the breaker stays open, lastCircuitOpenTime and the
\* timer handle are as before and the pending timers, hence the auto-reset
\* deadline, are the same.
C28_OpenFailureKeepsDeadline ==
    [][\A f \in faults :
        ( /\ isCircuitOpen(Breaker)
          /\ ~skipsCount(f.message, retryOptions)
          /\ RecordFailureCall(f) ) =>
            /\ consecutiveFailures' = consecutiveFailures + 1
            /\ Len(recentFailures') > 0
            /\ recentFailures'[1].timestamp = now
            /\ recentFailures'[1].message =
                  (IF f.message = EmptyString THEN MsgUnknownError ELSE f.message)
            /\ \A i \in 2..Len(recentFailures') :
                  recentFailures'[i] = recentFailures[i - 1]
            /\ UNCHANGED <<circuitOpen, circuitResetTimer, lastCircuitOpenTime,
                           timers, nextTimerId>>]_vars

\* two counting failures were recorded on the open breaker, the last of them
\* later than the opening; the deadline is still RESET_TIMEOUT after the opening
C28_Witness ==
    /\ circuitOpen
    /\ consecutiveFailures = FAILURE_THRESHOLD + 2
    /\ Len(failureLog) = FAILURE_THRESHOLD + 2
    /\ failureLog[1].timestamp > lastCircuitOpenTime
    /\ timers = {[id |-> 1, due |-> lastCircuitOpenTime + RESET_TIMEOUT]}

\* C29: the step in which the upstream stream of a streaming call opens is a
\* recordSuccess: after it consecutiveFailures is 0, the breaker is closed and
\* no auto-reset timer is pending, while no chunk has been received or written
\* yet; and no later step of the relay (a mid-stream failure included) opens
\* the breaker again unless it records a failure.
C29_OpeningIsSuccess ==
    /\ [][\A c \in Calls :
            (calls[c].stream /\ UpstreamOk(c)) =>
                /\ consecutiveFailures' = 0
                /\ ~circuitOpen'
                /\ timers' = {}
                /\ circuitOpen => circuitResetTimer' = 0
                /\ calls'[c].pc = "relay"
                /\ calls'[c].received = 0
                /\ calls'[c].trace = <<>>]_vars
    /\ [][\A c \in Calls, err \in MidStreamErrors :
            (UpstreamError(c, err) /\ failureLog' = failureLog) =>
                UNCHANGED <<consecutiveFailures, circuitOpen, timers>>]_vars

\* the non-streaming call failed four times and a failed opening attempt of the
\* streaming call opened the breaker; the stream then opened, which closed the
\* breaker and cancelled its timer, and failed mid-way before any chunk
C29_Witness ==
    \E c, d \in Calls :
        /\ started = 2
        /\ ~calls[d].stream /\ calls[d].pc = "done" /\ calls[d].upstream = 4
        /\ calls[d].error # NoError
        /\ calls[c].stream /\ calls[c].proc = "threw" /\ calls[c].received = 0
        /\ Len(failureLog) = 5
        /\ nextTimerId = 2
        /\ ~circuitOpen
        /\ consecutiveFailures = 0
        /\ timers = {}

\* C30: lastCircuitOpenTime changes only in a step that takes the breaker from
\* closed to open, where it becomes the time of that step; neither recordSuccess
\* nor the auto-reset clears it, so it is 0 exactly while the breaker has never
\* opened, and getFailureStats reports it as null exactly then (as the time of
\* the last opening otherwise).
C30_OpenTimeWrittenOnOpening ==
    /\ [][lastCircuitOpenTime' # lastCircuitOpenTime =>
            (~circuitOpen /\ circuitOpen' /\ lastCircuitOpenTime' = now)]_vars
    /\ [](lastCircuitOpenTime = 0 <=> nextTimerId = 1)
    /\ [][StatusCall =>
            /\ stats'.lastCircuitOpenTime = <<"null">> <=> nextTimerId = 1
            /\ nextTimerId > 1 =>
                  stats'.lastCircuitOpenTime = <<"ISO", lastCircuitOpenTime>>]_vars

\* a snapshot taken after the breaker had opened and been closed again: it
\* shows a closed breaker with counter 0 and still the time of the opening
C30_Witness ==
    /\ stats # NoStats
    /\ ~stats.circuitOpen
    /\ stats.consecutiveFailures = 0
    /\ stats.lastCircuitOpenTime = <<"ISO", StartTime>>
    /\ now > StartTime

=============================================================================
